---------------------------- MODULE Spec2Model ----------------------------
(***************************************************************************)
(* Sequence-analysis pipeline (Analyzer.py) and content-addressed disk     *)
(* cache (OOP_kmer_cache.py, OOP_learning.py, seqtools.py).                *)
(*                                                                         *)
(* Python strings are modelled as sequences of one-character strings,      *)
(* dictionaries as functions, lists as sequences.  An exception that       *)
(* leaves an operation is recorded in the variable that holds the          *)
(* operation's outcome, together with the state the operation leaves       *)
(* behind at the point of the raise.                                       *)
(***************************************************************************)
EXTENDS Integers, Sequences, FiniteSets, TLC

VARIABLES
    registry,     \* AnalyzerMeta.registry: names of the variants defined so far
    name_map,     \* PluginManager.name_map: the registry copied at construction
    configs,      \* PluginManager.configs: class name -> kwargs
    order,        \* PluginManager.order
    instances,    \* PluginManager.instances: <<[cls, kwargs], ...>>
    pmCall,       \* the last operation (of a manager, or a class definition) and its arguments
    pmRaised,     \* "none", or the exception that left the last operation
    results,      \* value returned by the last run_instances / run_all
    trace,        \* <<record index, instance index>> of every run() invoked
    caller_configs \* the mapping the caller passed to the manager's constructor

pmVars == <<registry, name_map, configs, order, instances, pmCall, pmRaised,
            results, trace, caller_configs>>

VARIABLES
    files,        \* the cache directory: key -> pickled value
    execs,        \* sequence content -> number of executions of the wrapped function
    calls,        \* sequence content -> the completed calls for it, in order
    removed,      \* an entry has been removed by housekeeping
    cCall,        \* the last call through the wrapper and its outcome
    func          \* the function the decorator has been applied to

cacheVars == <<files, execs, calls, removed, cCall, func>>

VARIABLES
    sCall,        \* the last record-creating operation and its input
    sOut          \* the records it produced, or the exception it raised

seqVars == <<sCall, sOut>>

VARIABLES
    aInst,        \* an analyzer instance
    aSeq,         \* the record it is run on
    aOut,         \* the outcome of run
    kOut          \* the outcome of expensive_kmer on the record

anVars == <<aInst, aSeq, aOut, kOut>>

vars == <<pmVars, cacheVars, seqVars, anVars>>

-----------------------------------------------------------------------------
(* Python values *)

None == "None"

\* A Python value returned by an analyzer: its type, and its payload as a
\* string (type str) or as integers (float: <<numerator, denominator>> in
\* lowest terms; list: the elements; int: <<n>>).
PyStr(s) == [type |-> "str", str |-> s, ints |-> <<>>]
PyInt(n) == [type |-> "int", str |-> "", ints |-> <<n>>]
PyList(l) == [type |-> "list", str |-> "", ints |-> l]
PyFloat(n, d) == [type |-> "float", str |-> "", ints |-> <<n, d>>]

\* m[k] = v on a dict m
DictSet(m, k, v) == [x \in (DOMAIN m) \cup {k} |-> IF x = k THEN v ELSE m[x]]

EmptyDict == [x \in {} |-> None]

\* the caller's mapping if the manager kept a copy of it
caller_sees_copy(m, k, v) == m

\* self.configs is analyzer_configs itself, not a copy: an assignment
\* through self.configs is an assignment in the caller's mapping m
caller_sees(m, k, v) == DictSet(m, k, v)

\* list.insert(position, x): positions beyond either end are clamped,
\* negative positions count from the end
list_insert(l, position, x) ==
    LET n == Len(l)
        p0 == IF position < 0 THEN position + n ELSE position
        p == IF p0 < 0 THEN 0 ELSE IF p0 > n THEN n ELSE p0
    IN  [i \in 1..(n + 1) |->
            IF i <= p THEN l[i] ELSE IF i = p + 1 THEN x ELSE l[i - 1]]

-----------------------------------------------------------------------------
(* OOP_kmer_cache.py: class Sequence *)

\* None where a string is expected (header, quality)
NoneStr == <<"None">>

Sequence(header, sequence_string, quality) ==
    [header |-> header, sequence_string |-> sequence_string, quality |-> quality]

-----------------------------------------------------------------------------
(* Analyzer.py: the analyzer variants *)

GCContent == "GCContentAnalyzer"
MotifSearch == "MotifSearchAnalyzer"
\* A variant defined by a user of the module: no constructor parameters,
\* its run always fails.
UserVariant == "FailingAnalyzer"

ClassNames == {GCContent, MotifSearch, UserVariant}

\* a metaclass that registers every class, the abstract base included
AnalyzerMeta_init_all(reg, name) == reg \cup {name}

\* AnalyzerMeta.__init__(cls, name, bases, attrs) on the registry reg
AnalyzerMeta_init(reg, name) ==
    IF name # "Analyzer" THEN reg \cup {name} ELSE reg

\* the registry once Analyzer.py has been imported: its class statements
\* are Analyzer, GCContentAnalyzer, MotifSearchAnalyzer, in this order
ImportedRegistry ==
    AnalyzerMeta_init(
        AnalyzerMeta_init(AnalyzerMeta_init({}, "Analyzer"), GCContent),
        MotifSearch)

\* keyword arguments: a set of <<parameter, value>> pairs
NoKwargs == {}
MotifKwargs(m) == {<<"motif", m>>}
KwNames(kwargs) == {p[1] : p \in kwargs}
KwGet(kwargs, k) == (CHOOSE p \in kwargs : p[1] = k)[2]

\* the keyword parameters of each variant's constructor
InitParams(cls) ==
    CASE cls = MotifSearch -> {"motif"}
      [] OTHER -> {}

\* cls(**kwargs): "none", or the exception the call raises
Construct(cls, kwargs) ==
    IF cls = None THEN "TypeError"
    ELSE IF KwNames(kwargs) # InitParams(cls) THEN "TypeError"
    ELSE "none"

\* a comparison that does not fold case
upper_identity(c) == c

upper(c) ==
    CASE c = "a" -> "A" [] c = "c" -> "C" [] c = "g" -> "G" [] c = "t" -> "T"
      [] OTHER -> c

str_count(s, c) == Cardinality({i \in 1..Len(s) : s[i] = c})

RECURSIVE gcd(_, _)
gcd(a, b) == IF b = 0 THEN a ELSE gcd(b, a % b)

\* n / d as a Python float, kept exact
true_div(n, d) == LET g == gcd(n, d) IN PyFloat(n \div g, d \div g)

Returned(v) == [raised |-> "none", val |-> v]
Raised(e) == [raised |-> e, val |-> PyStr("")]

GCContentAnalyzer_run(seq) ==
    LET nucl_string == [i \in 1..Len(seq.sequence_string) |->
                            upper(seq.sequence_string[i])]
    IN  IF Len(nucl_string) = 0 THEN Raised("ZeroDivisionError")
        ELSE Returned(true_div(str_count(nucl_string, "C")
                               + str_count(nucl_string, "G"),
                               Len(nucl_string)))

\* the literal pattern occurs in s at 0-based offset pos
match_at(pattern, s, pos) ==
    /\ pos + Len(pattern) <= Len(s)
    /\ \A i \in 1..Len(pattern) : s[pos + i] = pattern[i]

\* a scan that resumes one character after the start of a match, so that
\* matches may overlap (re.finditer does not do this)
RECURSIVE finditer_overlapping(_, _, _)
finditer_overlapping(pattern, s, pos) ==
    IF pos > Len(s) THEN <<>>
    ELSE IF match_at(pattern, s, pos)
         THEN <<pos>> \o finditer_overlapping(pattern, s, pos + 1)
         ELSE finditer_overlapping(pattern, s, pos + 1)

\* re.finditer(pattern, s) for a literal pattern: the 0-based starts of the
\* matches of a left-to-right scan; a match consumes its span, an empty
\* match advances the scan by one
RECURSIVE finditer(_, _, _)
finditer(pattern, s, pos) ==
    IF pos > Len(s) THEN <<>>
    ELSE IF match_at(pattern, s, pos)
         THEN <<pos>> \o finditer(pattern, s,
                           IF Len(pattern) = 0 THEN pos + 1
                           ELSE pos + Len(pattern))
         ELSE finditer(pattern, s, pos + 1)

\* the value returned when all_motifs is empty
no_match_value == PyInt(0)

MotifSearchAnalyzer_run(motif, seq) ==
    LET occ == finditer(motif, seq.sequence_string, 0)
        all_motifs == [i \in 1..Len(occ) |-> occ[i] + 1]
    IN  IF Len(all_motifs) > 0 THEN Returned(PyList(all_motifs))
        ELSE Returned(no_match_value)

UserVariant_run(seq) == Raised("RuntimeError")

\* instance.run(seq)
run(instance, seq) ==
    CASE instance.cls = GCContent -> GCContentAnalyzer_run(seq)
      [] instance.cls = MotifSearch ->
            MotifSearchAnalyzer_run(KwGet(instance.kwargs, "motif"), seq)
      [] OTHER -> UserVariant_run(seq)

-----------------------------------------------------------------------------
(* Analyzer.py: class PluginManager *)

\* a lookup in the process-wide registry instead of the manager's copy
name_map_get_live(nm, class_name) ==
    IF class_name \in registry THEN class_name ELSE None

\* self.name_map.get(class_name)
name_map_get(nm, class_name) == IF class_name \in nm THEN class_name ELSE None

\* the local variable kwargs of discover: unbound until its first assignment
Unbound == [bound |-> FALSE, val |-> NoKwargs]
Bound(v) == [bound |-> TRUE, val |-> v]

\* "if cls is None: if verbose: print(...); continue"
skip_unknown(cls, verbose) == cls = None /\ verbose

\* "except KeyError: if verbose: print(...); continue"
skip_no_config(found, verbose) == ~found /\ verbose

\* the loop of discover from index i on; kwargs keeps the value of the last
\* iteration that assigned it
RECURSIVE discover_loop(_, _, _, _, _, _, _)
discover_loop(ord, nm, cfg, verbose, i, insts, kwargs) ==
    IF i > Len(ord) THEN [instances |-> insts, raised |-> "none"]
    ELSE
    LET class_name == ord[i]
        cls == name_map_get(nm, class_name)
        found == class_name \in DOMAIN cfg
        kw == IF found THEN Bound(cfg[class_name]) ELSE kwargs
    IN  IF skip_unknown(cls, verbose)
        THEN discover_loop(ord, nm, cfg, verbose, i + 1, insts, kwargs)
        ELSE IF skip_no_config(found, verbose)
        THEN discover_loop(ord, nm, cfg, verbose, i + 1, insts, kwargs)
        ELSE IF ~kw.bound
        THEN [instances |-> insts, raised |-> "UnboundLocalError"]
        ELSE IF Construct(cls, kw.val) # "none"
        THEN [instances |-> insts, raised |-> Construct(cls, kw.val)]
        ELSE discover_loop(ord, nm, cfg, verbose, i + 1,
                           Append(insts, [cls |-> cls, kwargs |-> kw.val]), kw)

\* discover(action_order, verbose) on a manager with name_map nm, configs cfg
discover_body(ord, nm, cfg, verbose) ==
    discover_loop(ord, nm, cfg, verbose, 1, <<>>, Unbound)

\* the sentinel stored for an analyzer whose run raised
error_sentinel == PyStr("Error")

\* run_guarded without its try/except: the exception leaves run_instances
run_unguarded(instance, seq) == run(instance, seq)

\* "try: instance.run(seq)  except: 'Error'"
run_guarded(instance, seq) ==
    LET out == run(instance, seq)
    IN  IF out.raised = "none" THEN out ELSE Returned(error_sentinel)

\* a loop that leaves out an instance whose name already has an entry
RECURSIVE run_instances_loop_once(_, _, _, _, _, _)
run_instances_loop_once(insts, seq, r, i, res, tr) ==
    IF i > Len(insts) THEN [raised |-> "none", val |-> res, trace |-> tr]
    ELSE IF insts[i].cls \in DOMAIN res
         THEN run_instances_loop_once(insts, seq, r, i + 1, res, tr)
         ELSE run_instances_loop_once(insts, seq, r, i + 1,
                  DictSet(res, insts[i].cls, run_guarded(insts[i], seq).val),
                  Append(tr, <<r, i>>))

\* the loop of run_instances from index i on, for record number r of a batch
RECURSIVE run_instances_loop(_, _, _, _, _, _)
run_instances_loop(insts, seq, r, i, res, tr) ==
    IF i > Len(insts) THEN [raised |-> "none", val |-> res, trace |-> tr]
    ELSE
    LET instance_name == insts[i].cls
        out == run_guarded(insts[i], seq)
    IN  IF out.raised # "none"
        THEN [raised |-> out.raised, val |-> res, trace |-> Append(tr, <<r, i>>)]
        ELSE run_instances_loop(insts, seq, r, i + 1,
                                DictSet(res, instance_name, out.val),
                                Append(tr, <<r, i>>))

run_instances_body(insts, seq, r) ==
    run_instances_loop(insts, seq, r, 1, EmptyDict, <<>>)

\* store_result keeping the first entry of a header (dict.setdefault)
store_result_first(m, header, res) ==
    IF header \in DOMAIN m THEN m ELSE DictSet(m, header, res)

\* multiple_sequence_results[seq.header] = ...
store_result(m, header, res) == DictSet(m, header, res)

\* the loop of run_all from record r on
RECURSIVE run_all_loop(_, _, _, _, _)
run_all_loop(insts, sequences, r, m, tr) ==
    IF r > Len(sequences) THEN [raised |-> "none", val |-> m, trace |-> tr]
    ELSE
    LET one == run_instances_body(insts, sequences[r], r)
    IN  IF one.raised # "none"
        THEN [raised |-> one.raised, val |-> m, trace |-> tr \o one.trace]
        ELSE run_all_loop(insts, sequences, r + 1,
                          store_result(m, sequences[r].header, one.val),
                          tr \o one.trace)

\* run_all with the loops exchanged: each analyzer over all records in turn
run_all_body_by_analyzer(insts, sequences) ==
    LET out == run_all_loop(insts, sequences, 1, EmptyDict, <<>>)
        n == Len(sequences)
    IN  [out EXCEPT !.trace =
            [k \in 1..(n * Len(insts)) |->
                <<((k - 1) % n) + 1, ((k - 1) \div n) + 1>>]]

run_all_body(insts, sequences) == run_all_loop(insts, sequences, 1, EmptyDict, <<>>)

-----------------------------------------------------------------------------
(* Bounds and inputs of the pipeline *)

MaxOrder == 2      \* longest order list
MaxBatch == 2      \* longest batch given to run_all

PMMotif == <<"A", "T">>
KwChoices == {NoKwargs, MotifKwargs(PMMotif)}
ConfigMaps == UNION {[S -> KwChoices] : S \in SUBSET ClassNames}
FittingConfigMaps ==
    {c \in ConfigMaps : \A n \in DOMAIN c : Construct(n, c[n]) = "none"}
Orders == UNION {[1..k -> ClassNames] : k \in 0..MaxOrder}

\* two records share a header and differ in content; one has an empty sequence
PMRecords == { Sequence(<<"s", "1">>, <<"A", "T", "G">>, NoneStr),
               Sequence(<<"s", "1">>, <<>>, NoneStr),
               Sequence(<<"s", "2">>, <<"G", "C">>, NoneStr) }
Batches == UNION {[1..k -> PMRecords] : k \in 0..MaxBatch}

NoCall == [op |-> "__init__", verbose |-> FALSE, cls |-> None,
           kwargs |-> NoKwargs, position |-> 0, sequences |-> <<>>]

-----------------------------------------------------------------------------
(* Operations of the pipeline *)

\* class X(Analyzer): AnalyzerMeta.__init__ registers every class but Analyzer
DefineVariant ==
    /\ UserVariant \notin registry
    /\ registry' = AnalyzerMeta_init(registry, UserVariant)
    /\ pmCall' = [NoCall EXCEPT !.op = "class", !.cls = UserVariant]
    /\ pmRaised' = "none"
    /\ UNCHANGED <<name_map, configs, order, instances, results, trace,
                   caller_configs>>
    /\ UNCHANGED <<cacheVars, seqVars, anVars>>

\* PluginManager(analyzer_configs)
PluginManager_init ==
    \E analyzer_configs \in ConfigMaps :
        /\ name_map' = registry
        /\ configs' = analyzer_configs
        /\ caller_configs' = analyzer_configs
        /\ instances' = <<>>
        /\ order' = <<>>
        /\ pmCall' = NoCall
        /\ pmRaised' = "none"
        /\ results' = EmptyDict
        /\ trace' = <<>>
        /\ UNCHANGED registry
        /\ UNCHANGED <<cacheVars, seqVars, anVars>>

\* pm.discover(action_order, verbose)
discover ==
    \E action_order \in Orders, verbose \in BOOLEAN :
        LET d == discover_body(action_order, name_map, configs, verbose)
        IN  /\ order' = action_order
            /\ instances' = d.instances
            /\ pmRaised' = d.raised
            /\ pmCall' = [NoCall EXCEPT !.op = "discover", !.verbose = verbose]
            /\ results' = EmptyDict
            /\ trace' = <<>>
            /\ UNCHANGED <<registry, name_map, configs, caller_configs>>
            /\ UNCHANGED <<cacheVars, seqVars, anVars>>

\* pm.add_analyzer(cls, kwargs, order_position), cls a class that exists
add_analyzer ==
    /\ Len(order) < MaxOrder
    /\ \E cls \in registry, kwargs \in KwChoices,
          order_position \in -1..(Len(order) + 1) :
        LET cfg == DictSet(configs, cls, kwargs)
            ord == list_insert(order, order_position, cls)
            d == discover_body(ord, name_map, cfg, FALSE)
        IN  /\ configs' = cfg
            /\ caller_configs' = caller_sees(caller_configs, cls, kwargs)
            /\ order' = ord
            /\ instances' = d.instances
            /\ pmRaised' = d.raised
            /\ pmCall' = [NoCall EXCEPT !.op = "add_analyzer", !.cls = cls,
                                        !.kwargs = kwargs,
                                        !.position = order_position]
            /\ results' = EmptyDict
            /\ trace' = <<>>
            /\ UNCHANGED <<registry, name_map>>
            /\ UNCHANGED <<cacheVars, seqVars, anVars>>

\* pm.run_instances(seq)
run_instances ==
    \E seq \in PMRecords :
        LET out == run_instances_body(instances, seq, 1)
        IN  /\ results' = out.val
            /\ trace' = out.trace
            /\ pmRaised' = out.raised
            /\ pmCall' = [NoCall EXCEPT !.op = "run_instances",
                                        !.sequences = <<seq>>]
            /\ UNCHANGED <<registry, name_map, configs, order, instances,
                           caller_configs>>
            /\ UNCHANGED <<cacheVars, seqVars, anVars>>

\* pm.run_all(sequences)
run_all ==
    \E sequences \in Batches :
        LET out == run_all_body(instances, sequences)
        IN  /\ results' = out.val
            /\ trace' = out.trace
            /\ pmRaised' = out.raised
            /\ pmCall' = [NoCall EXCEPT !.op = "run_all",
                                        !.sequences = sequences]
            /\ UNCHANGED <<registry, name_map, configs, order, instances,
                           caller_configs>>
            /\ UNCHANGED <<cacheVars, seqVars, anVars>>

-----------------------------------------------------------------------------
(* OOP_kmer_cache.py, OOP_learning.py: disk_cache and expensive_kmer *)

\* s[j : j + i], 0-based
slice(s, j, i) == SubSeq(s, j + 1, j + i)

\* Sequence.expensive_kmer: k -> the substrings of length k, for k in 1..len
\* the inner loop stopping one substring short (j + i < k)
expensive_kmer_short(self) ==
    LET k == Len(self.sequence_string)
    IN  [i \in 1..k |->
            LET js == {j \in 0..k : j + i < k}
            IN  [n \in 1..Cardinality(js) |-> slice(self.sequence_string, n - 1, i)]]

expensive_kmer(self) ==
    LET k == Len(self.sequence_string)
    IN  [i \in 1..k |->
            LET js == {j \in 0..k : j + i <= k}
            IN  [n \in 1..Cardinality(js) |-> slice(self.sequence_string, n - 1, i)]]

hasattr(arg, name) == name \in DOMAIN arg

\* sha256(text.encode('utf-8')).hexdigest(): the digest is taken to be free
\* of collisions, a value determined by the text and by nothing else
sha256_hexdigest(text) == <<"sha256", text>>

\* cache_key taking the header into the digest
cache_key_with_header(arg) ==
    sha256_hexdigest(arg.header \o <<"|">> \o arg.sequence_string)

\* the key the wrapper derives from its argument
cache_key(arg) == sha256_hexdigest(arg.sequence_string)

\* os.path.normpath(os.path.join(cache_dir, f'{key}.pkl'))
key_path_of(key) == <<key, ".pkl">>

\* path_exists looking in the wrong place: never finds the entry
path_exists_never(dir, key_path) == FALSE

\* os.path.exists(key_path)
path_exists(dir, key_path) == key_path \in DOMAIN dir

pickle_dump(value) == <<"pickle", value>>
pickle_load(bytes) == bytes[2]

\* write_entry that persists nothing
write_entry_dropped(dir, key_path, result) == dir

\* write_entry that recreates the directory around the new file
write_entry_truncating(dir, key_path, result) ==
    DictSet(EmptyDict, key_path, pickle_dump(result))

\* with open(key_path, 'wb') as pickle_file: pickle.dump(result, pickle_file)
write_entry(dir, key_path, result) == DictSet(dir, key_path, pickle_dump(result))

MaxCalls == 4      \* calls through the wrapper in one behaviour

CacheContents == {<<>>, <<"G">>, <<"A", "T">>}
CacheHeaders == {<<"s", "1">>, <<"s", "2">>}
CacheRecords ==
    {Sequence(h, c, NoneStr) : h \in CacheHeaders, c \in CacheContents}
        \cup {Sequence(<<"s", "1">>, <<"G">>, <<"I">>)}
\* an argument that is no Sequence
PlainObject == [value |-> <<"x">>]
CacheArgs == CacheRecords \cup {PlainObject}

\* a value found in the cache directory that the wrapped function does not
\* compute for any of the contents: {1: ['N']}
StaleKmers == << << <<"N">> >> >>

\* cache directories as an earlier run may have left them: empty, or with one
\* file under the key of a content, holding anything that unpickles
LeftoverDirs ==
    {EmptyDict}
        \cup {DictSet(EmptyDict, key_path_of(sha256_hexdigest(c)), pickle_dump(v)) :
                c \in CacheContents,
                v \in {StaleKmers} \cup {expensive_kmer(r) : r \in CacheRecords}}

\* the functions disk_cache is applied to: the k-mer enumerator, and the
\* GC-content run, which raises on an empty sequence
Funcs == {"expensive_kmer", "GCContentAnalyzer.run"}

\* func(arg)
call_func(f, arg) ==
    IF ~hasattr(arg, "sequence_string") THEN Raised("AttributeError")
    ELSE IF f = "expensive_kmer" THEN [raised |-> "none", val |-> expensive_kmer(arg)]
    ELSE GCContentAnalyzer_run(arg)

\* a key that has a value before the hasattr test: the digest of ''
unassigned_key_default == Bound(sha256_hexdigest(<<>>))

\* the local variable key when arg has no sequence_string: the assignment
\* is skipped and there is no else branch
unassigned_key == Unbound

\* the file opened for writing before func is called: a raise leaves an
\* empty file behind
persist_opened_first(dir, key_path, out) ==
    IF out.raised # "none" THEN DictSet(dir, key_path, pickle_dump(<<>>))
    ELSE write_entry(dir, key_path, out.val)

\* result = func(arg), then the dump: an exception of func leaves the
\* wrapper before the file is opened
persist(dir, key_path, out) ==
    IF out.raised # "none" THEN dir ELSE write_entry(dir, key_path, out.val)

\* the name under which execs and calls book a call
content_of(arg) ==
    IF hasattr(arg, "sequence_string") THEN arg.sequence_string
    ELSE <<"no sequence_string">>

NoCacheCall == [n |-> 0, arg |-> PlainObject, raised |-> "none", val |-> <<>>,
                hit |-> FALSE]

Count(m, k) == IF k \in DOMAIN m THEN m[k] ELSE 0
History(m, k) == IF k \in DOMAIN m THEN m[k] ELSE <<>>

\* wrapper(arg): one call through the cache around expensive_kmer
wrapper ==
    /\ cCall.n < MaxCalls
    /\ \E arg \in CacheArgs :
        LET key == IF hasattr(arg, "sequence_string") THEN Bound(cache_key(arg))
                   ELSE unassigned_key
        IN
        IF ~key.bound
        THEN \* key is never assigned: building key_path raises
             /\ cCall' = [n |-> cCall.n + 1, arg |-> arg,
                          raised |-> "UnboundLocalError", val |-> <<>>,
                          hit |-> FALSE]
             /\ UNCHANGED <<files, execs, calls, removed>>
        ELSE
        LET key_path == key_path_of(key.val)
            content == content_of(arg)
        IN  IF path_exists(files, key_path)
            THEN LET kmer_db == pickle_load(files[key_path])
                 IN  /\ cCall' = [n |-> cCall.n + 1, arg |-> arg,
                                  raised |-> "none", val |-> kmer_db,
                                  hit |-> TRUE]
                     /\ calls' = DictSet(calls, content,
                                    Append(History(calls, content),
                                           [header |-> arg.header, val |-> kmer_db]))
                     /\ UNCHANGED <<files, execs, removed>>
            ELSE LET out == call_func(func, arg)
                 IN  /\ execs' = DictSet(execs, content, Count(execs, content) + 1)
                     /\ files' = persist(files, key_path, out)
                     /\ cCall' = [n |-> cCall.n + 1, arg |-> arg,
                                  raised |-> out.raised,
                                  val |-> IF out.raised = "none" THEN out.val
                                          ELSE <<>>,
                                  hit |-> FALSE]
                     /\ calls' = IF out.raised # "none" THEN calls
                                 ELSE DictSet(calls, content,
                                        Append(History(calls, content),
                                               [header |-> arg.header,
                                                val |-> out.val]))
                     /\ UNCHANGED removed
    /\ UNCHANGED func
    /\ UNCHANGED <<pmVars, seqVars, anVars>>

\* seqtools.py housekeeping: a cache file is deleted (--clear_cache, or aged)
os_remove ==
    /\ \E key_path \in DOMAIN files :
           files' = [p \in DOMAIN files \ {key_path} |-> files[p]]
    /\ removed' = TRUE
    /\ UNCHANGED <<execs, calls, cCall, func>>
    /\ UNCHANGED <<pmVars, seqVars, anVars>>

-----------------------------------------------------------------------------
(* OOP_kmer_cache.py: the ways a Sequence is created *)

\* A text is modelled by its lines (the pieces between "\n"), a line by its
\* characters.
IsSpace(c) == c \in {" ", "\n"}

RECURSIVE lstrip(_)
lstrip(line) ==
    IF line # <<>> /\ IsSpace(Head(line)) THEN lstrip(Tail(line)) ELSE line

RECURSIVE rstrip(_)
rstrip(line) ==
    IF line # <<>> /\ IsSpace(line[Len(line)])
    THEN rstrip(SubSeq(line, 1, Len(line) - 1))
    ELSE line

strip(line) == lstrip(rstrip(line))

startswith(line, c) == line # <<>> /\ Head(line) = c

RECURSIVE drop_blank_head(_)
drop_blank_head(lines) ==
    IF lines # <<>> /\ strip(Head(lines)) = <<>>
    THEN drop_blank_head(Tail(lines))
    ELSE lines

RECURSIVE drop_blank_tail(_)
drop_blank_tail(lines) ==
    IF lines # <<>> /\ strip(lines[Len(lines)]) = <<>>
    THEN drop_blank_tail(SubSeq(lines, 1, Len(lines) - 1))
    ELSE lines

\* text.strip().splitlines()
strip_splitlines(lines) ==
    LET body == drop_blank_tail(drop_blank_head(lines))
    IN  [i \in 1..Len(body) |->
            LET l == IF i = 1 THEN lstrip(body[i]) ELSE body[i]
            IN  IF i = Len(body) THEN rstrip(l) ELSE l]

Yielded(records) == [raised |-> "none", records |-> records]
Failed(e) == [raised |-> e, records |-> <<>>]

\* Sequence.__init__: the three attributes are stored as given
Sequence_init(header, sequence_string, quality) ==
    Yielded(<<Sequence(header, sequence_string, quality)>>)

\* the loop of from_fasta: <<header, sequence_string>> after the lines from i on
RECURSIVE from_fasta_loop(_, _, _, _)
from_fasta_loop(lines, i, header, sequence_string) ==
    IF i > Len(lines) THEN <<header, sequence_string>>
    ELSE IF startswith(lines[i], ">")
         THEN from_fasta_loop(lines, i + 1, Tail(strip(lines[i])), sequence_string)
         ELSE from_fasta_loop(lines, i + 1, header,
                              sequence_string \o strip(lines[i]))

from_fasta(text) ==
    LET r == from_fasta_loop(strip_splitlines(text), 1, NoneStr, <<>>)
    IN  IF r[2] = <<>> THEN Failed("ValueError")
        ELSE Sequence_init(r[1], r[2], NoneStr)

from_fastq(text) ==
    LET splitted_text == strip_splitlines(text)
    IN  IF Len(splitted_text) < 4 THEN Failed("ValueError")
        ELSE LET header == SubSeq(splitted_text[1], 2, Len(splitted_text[1]))
                 sequence_string == splitted_text[2]
                 quality_string == splitted_text[4]
             IN  IF quality_string = <<>> THEN Failed("ValueError")
                 ELSE Sequence_init(header, sequence_string, quality_string)

\* ''.join(seq_lines)
RECURSIVE join(_)
join(seq_lines) ==
    IF seq_lines = <<>> THEN <<>> ELSE Head(seq_lines) \o join(Tail(seq_lines))

\* "if header": None and '' are false
truthy(x) == x # NoneStr /\ x # <<>>

\* the loop of parse_fasta_file: the records yielded from line i on
RECURSIVE parse_fasta_loop(_, _, _, _)
parse_fasta_loop(lines, i, header, seq_lines) ==
    IF i > Len(lines)
    THEN IF truthy(header) /\ seq_lines # <<>>
         THEN <<Sequence(header, join(seq_lines), NoneStr)>>
         ELSE <<>>
    ELSE LET line == rstrip(lines[i])
         IN  IF startswith(line, ">")
             THEN (IF truthy(header)
                   THEN <<Sequence(header, join(seq_lines), NoneStr)>>
                   ELSE <<>>)
                  \o parse_fasta_loop(lines, i + 1, Tail(line), <<>>)
             ELSE parse_fasta_loop(lines, i + 1, header, Append(seq_lines, line))

parse_fasta_file(lines) == Yielded(parse_fasta_loop(lines, 1, NoneStr, <<>>))

\* f.readlines(): every line keeps its "\n"; the last has one when the file
\* ends with one
readlines(lines, final_newline) ==
    [i \in 1..Len(lines) |->
        IF i < Len(lines) \/ final_newline THEN lines[i] \o <<"\n">> ELSE lines[i]]

\* the loop of parse_fastq_file (i 0-based, as in the code)
RECURSIVE parse_fastq_loop(_, _)
parse_fastq_loop(file, i) ==
    IF i <= Len(file) - 4
    THEN <<Sequence(file[i + 1], file[i + 2], file[i + 4])>>
             \o parse_fastq_loop(file, i + 4)
    ELSE <<>>

parse_fastq_file(file) == Yielded(parse_fastq_loop(file, 0))

MaxLineLen == 2     \* longest line of a FASTA text
MaxFastaLines == 3  \* lines of a FASTA text
MaxFastqLines == 5  \* lines of a FASTQ text

FastaLines == UNION {[1..n -> {">", "A", " "}] : n \in 0..MaxLineLen}
FastaTexts == UNION {[1..n -> FastaLines] : n \in 0..MaxFastaLines}
FastqLines == {<<>>, <<" ">>, <<"A">>, <<"@", "s">>, <<"+">>}
FastqTexts == UNION {[1..n -> FastqLines] : n \in 0..MaxFastqLines}

DirectArgs == {<<header, sequence_string, quality>> :
                   header \in {<<"s">>}, sequence_string \in {<<>>, <<"A">>},
                   quality \in {NoneStr, <<"I">>}}

\* the input of a creation, before the creation has been applied to it
Pending(input) == [op |-> "none", text |-> input]
NoSeqCall == Pending(<<>>)

\* Sequence(header, sequence_string, quality)
NewSequence ==
    /\ sCall.op = "none"
    /\ sCall.text \in DirectArgs
    /\ sCall' = [sCall EXCEPT !.op = "Sequence"]
    /\ sOut' = Sequence_init(sCall.text[1], sCall.text[2], sCall.text[3])
    /\ UNCHANGED <<pmVars, cacheVars, anVars>>

FromFasta ==
    /\ sCall.op = "none"
    /\ sCall.text \in FastaTexts
    /\ sCall' = [sCall EXCEPT !.op = "from_fasta"]
    /\ sOut' = from_fasta(sCall.text)
    /\ UNCHANGED <<pmVars, cacheVars, anVars>>

FromFastq ==
    /\ sCall.op = "none"
    /\ sCall.text \in FastqTexts
    /\ sCall' = [sCall EXCEPT !.op = "from_fastq"]
    /\ sOut' = from_fastq(sCall.text)
    /\ UNCHANGED <<pmVars, cacheVars, anVars>>

ParseFastaFile ==
    /\ sCall.op = "none"
    /\ sCall.text \in FastaTexts
    /\ sCall' = [sCall EXCEPT !.op = "parse_fasta_file"]
    /\ sOut' = parse_fasta_file(sCall.text)
    /\ UNCHANGED <<pmVars, cacheVars, anVars>>

ParseFastqFile ==
    /\ sCall.op = "none"
    /\ sCall.text \in FastqTexts \ {<<>>}
    /\ \E final_newline \in BOOLEAN :
           /\ (sCall.text[Len(sCall.text)] = <<>> => final_newline)
           /\ sCall' = [op |-> "parse_fastq_file",
                        text |-> readlines(sCall.text, final_newline)]
           /\ sOut' = parse_fastq_file(readlines(sCall.text, final_newline))
    /\ UNCHANGED <<pmVars, cacheVars, anVars>>

-----------------------------------------------------------------------------
(* One analyzer run on one record *)

MaxSeqLen == 3      \* longest sequence an analyzer is run on
MaxMotifLen == 2    \* longest motif

AnBases == {"A", "G", "T", "c"}
AnSequences == UNION {[1..n -> AnBases] : n \in 0..MaxSeqLen}
AnMotifs == UNION {[1..n -> {"A", "G", "T"}] : n \in 0..MaxMotifLen}
AnInstances ==
    {[cls |-> GCContent, kwargs |-> NoKwargs]}
        \cup {[cls |-> MotifSearch, kwargs |-> MotifKwargs(m)] : m \in AnMotifs}

\* the runs shown in the docstrings of the two analyzers, and their
\* lower-case and GC-free companions
DocExamples ==
    { [inst |-> [cls |-> MotifSearch,
                 kwargs |-> MotifKwargs(<<"A", "T", "G">>)],
       seq |-> Sequence(<<"s", "1">>,
                        <<"A", "T", "G", "T", "T", "G", "G", "G", "C", "A", "T", "G">>,
                        NoneStr)] }
    \cup { [inst |-> [cls |-> GCContent, kwargs |-> NoKwargs],
            seq |-> Sequence(<<"s", "1">>, t, NoneStr)] :
            t \in { <<"G", "C", "G", "T">>, <<"g", "c", "g", "t">>,
                    <<"A", "A", "T", "T">> } }

AnCases ==
    { [inst |-> i, seq |-> Sequence(<<"s", "1">>, t, NoneStr)] :
        i \in AnInstances, t \in AnSequences }
    \cup DocExamples

NotRun == [done |-> FALSE, out |-> Returned(PyStr(""))]

\* aInst.run(aSeq)
RunAnalyzer ==
    /\ ~aOut.done
    /\ aOut' = [done |-> TRUE, out |-> run(aInst, aSeq)]
    /\ UNCHANGED <<aInst, aSeq, kOut>>
    /\ UNCHANGED <<pmVars, cacheVars, seqVars>>

NotEnumerated == [done |-> FALSE, val |-> EmptyDict]

KmerHeaders == {<<"s", "1">>, <<"s", "2">>}
KmerRecords ==
    {Sequence(h, t, q) : h \in KmerHeaders, t \in AnSequences,
                         q \in {NoneStr, <<"I">>}}

\* aSeq.expensive_kmer()
ExpensiveKmer ==
    /\ ~kOut.done
    /\ kOut' = [done |-> TRUE, val |-> expensive_kmer(aSeq)]
    /\ UNCHANGED <<aInst, aSeq, aOut>>
    /\ UNCHANGED <<pmVars, cacheVars, seqVars>>

-----------------------------------------------------------------------------
(* Specifications *)

\* the part of the state a specification does not use
PMIdle ==
    /\ registry = ImportedRegistry
    /\ name_map = ImportedRegistry
    /\ configs = EmptyDict
    /\ caller_configs = configs
    /\ order = <<>>
    /\ instances = <<>>
    /\ pmCall = NoCall
    /\ pmRaised = "none"
    /\ results = EmptyDict
    /\ trace = <<>>

CacheIdle ==
    /\ files = EmptyDict
    /\ execs = EmptyDict
    /\ calls = EmptyDict
    /\ removed = FALSE
    /\ cCall = NoCacheCall
    /\ func = "expensive_kmer"

SeqIdle ==
    /\ sCall = NoSeqCall
    /\ sOut = Yielded(<<>>)

AnIdle ==
    /\ aInst = [cls |-> GCContent, kwargs |-> NoKwargs]
    /\ aSeq = Sequence(<<"s", "1">>, <<>>, NoneStr)
    /\ aOut = NotRun
    /\ kOut = NotEnumerated

\* Pipeline setup: Analyzer.py has been imported (its two variants are
\* registered) and a manager has been constructed.
InitPM ==
    /\ registry = ImportedRegistry
    /\ name_map = registry
    /\ configs \in ConfigMaps
    /\ caller_configs = configs
    /\ order = <<>>
    /\ instances = <<>>
    /\ pmCall = NoCall
    /\ pmRaised = "none"
    /\ results = EmptyDict
    /\ trace = <<>>
    /\ CacheIdle /\ SeqIdle /\ AnIdle

NextPM ==
    \/ DefineVariant
    \/ PluginManager_init
    \/ discover
    \/ add_analyzer

SpecPM == InitPM /\ [][NextPM]_vars

\* Pipeline execution: a further variant has been defined before the manager
\* was constructed, and the manager's configs fit the constructors.
InitRun ==
    /\ registry = AnalyzerMeta_init(ImportedRegistry, UserVariant)
    /\ name_map = registry
    /\ configs \in FittingConfigMaps
    /\ caller_configs = configs
    /\ order = <<>>
    /\ instances = <<>>
    /\ pmCall = NoCall
    /\ pmRaised = "none"
    /\ results = EmptyDict
    /\ trace = <<>>
    /\ CacheIdle /\ SeqIdle /\ AnIdle

NextRun ==
    \/ discover
    \/ run_instances
    \/ run_all

SpecRun == InitRun /\ [][NextRun]_vars

-----------------------------------------------------------------------------
(* Claims about the pipeline *)

InstanceNames == {instances[i].cls : i \in 1..Len(instances)}

\* the outcome run_one is to record for instance i on record seq
EntryFor(i, seq) ==
    LET out == run(instances[i], seq)
    IN  IF out.raised = "none" THEN out.val ELSE PyStr("Error")

\* C2: run_instances never raises because an analyzer's run raised: every
\* instance is executed, in list order; the entry of an instance whose run
\* raised is the error sentinel and the entry of an instance whose run
\* returned is the value it returned.
C2_RunOneIsolatesFailures ==
    pmCall.op = "run_instances" =>
        LET seq == pmCall.sequences[1]
        IN  /\ pmRaised = "none"
            /\ trace = [i \in 1..Len(instances) |-> <<1, i>>]
            /\ DOMAIN results = InstanceNames
            /\ \A i \in 1..Len(instances) :
                   results[instances[i].cls] = EntryFor(i, seq)

\* C2 witness: an instance failed, a later instance was still run and
\* succeeded, and both entries are in the result.
C2_Witness ==
    /\ pmCall.op = "run_instances"
    /\ pmRaised = "none"
    /\ \E i, j \in 1..Len(instances) :
           /\ i < j
           /\ run(instances[i], pmCall.sequences[1]).raised # "none"
           /\ run(instances[j], pmCall.sequences[1]).raised = "none"
           /\ results[instances[i].cls] = PyStr("Error")
           /\ results[instances[j].cls] = run(instances[j], pmCall.sequences[1]).val
           /\ <<1, j>> \in {trace[k] : k \in 1..Len(trace)}

\* a name configure is to instantiate: registered and configured
Instantiable(nm, cfg, name) == name \in nm /\ name \in DOMAIN cfg

RECURSIVE ExpectedInstances(_, _, _)
ExpectedInstances(ord, nm, cfg) ==
    IF ord = <<>> THEN <<>>
    ELSE IF Instantiable(nm, cfg, Head(ord))
         THEN <<[cls |-> Head(ord), kwargs |-> cfg[Head(ord)]]>>
                  \o ExpectedInstances(Tail(ord), nm, cfg)
         ELSE ExpectedInstances(Tail(ord), nm, cfg)

\* C3: when configure returns, for either value of verbose, the instance
\* list is order with the unregistered and the unconfigured names dropped,
\* each remaining name constructed with its own config.
C3_ConfigureBuildsFromOrder ==
    (pmCall.op = "discover" /\ pmRaised = "none") =>
        instances = ExpectedInstances(order, name_map, configs)

\* every name of ord that is to be instantiated has a config its
\* constructor accepts
ConfigsFit(ord, nm, cfg) ==
    \A i \in 1..Len(ord) :
        Instantiable(nm, cfg, ord[i]) => Construct(ord[i], cfg[ord[i]]) = "none"

\* C4: an unknown name or a name without a config is never fatal during
\* setup: configure, called directly with either value of verbose or by
\* add_analyzer, does not raise for it, skips it and continues.
C4_SetupSkipsUnknownNames ==
    (pmCall.op \in {"discover", "add_analyzer"}
        /\ ConfigsFit(order, name_map, configs)) =>
            /\ pmRaised = "none"
            /\ instances = ExpectedInstances(order, name_map, configs)

\* the pipeline is configured: the last configure returned and every name of
\* order has its live instance
Configured ==
    /\ pmCall.op \in {"discover", "add_analyzer"}
    /\ pmRaised = "none"
    /\ Len(instances) = Len(order)
    /\ \A i \in 1..Len(order) :
           instances[i] = [cls |-> order[i], kwargs |-> configs[order[i]]]

\* C5: add_analyzer(variant, config, position) on a configured pipeline with
\* 0 <= position <= len(order): configs[variant] = config and no other
\* config changes, order is the previous order with the name inserted at
\* position, and the rebuilt instance list has one live instance for every
\* name of the new order.
C5_AddAnalyzerExtends ==
    [][ ( /\ pmCall'.op = "add_analyzer"
          /\ Configured
          /\ Construct(pmCall'.cls, pmCall'.kwargs) = "none"
          /\ 0 <= pmCall'.position
          /\ pmCall'.position <= Len(order) )
        => /\ pmRaised' = "none"
           /\ DOMAIN configs' = DOMAIN configs \cup {pmCall'.cls}
           /\ configs'[pmCall'.cls] = pmCall'.kwargs
           /\ \A n \in DOMAIN configs \ {pmCall'.cls} : configs'[n] = configs[n]
           /\ order' = SubSeq(order, 1, pmCall'.position) \o <<pmCall'.cls>>
                         \o SubSeq(order, pmCall'.position + 1, Len(order))
           /\ Len(instances') = Len(order')
           /\ \A i \in 1..Len(order') :
                  instances'[i] = [cls |-> order'[i],
                                   kwargs |-> configs'[order'[i]]]
      ]_vars

Headers(sequences) == {sequences[r].header : r \in 1..Len(sequences)}

LastWith(sequences, h) ==
    CHOOSE r \in 1..Len(sequences) :
        /\ sequences[r].header = h
        /\ \A q \in (r + 1)..Len(sequences) : sequences[q].header # h

\* C8: run_all returns a mapping with exactly one entry per distinct header
\* of the input, and the entry of a header is run_one applied to the last
\* record that carries it.
C8_RunManyKeepsLastPerHeader ==
    pmCall.op = "run_all" =>
        /\ pmRaised = "none"
        /\ DOMAIN results = Headers(pmCall.sequences)
        /\ \A h \in Headers(pmCall.sequences) :
               results[h] =
                   run_instances_body(instances,
                       pmCall.sequences[LastWith(pmCall.sequences, h)], 1).val

\* C8 witness: two records share a header, run_one differs on them, and the
\* entry is that of the later one.
C8_Witness ==
    /\ pmCall.op = "run_all"
    /\ \E r, q \in 1..Len(pmCall.sequences) :
           /\ r < q
           /\ pmCall.sequences[r].header = pmCall.sequences[q].header
           /\ q = LastWith(pmCall.sequences, pmCall.sequences[q].header)
           /\ run_instances_body(instances, pmCall.sequences[r], 1).val
                  # run_instances_body(instances, pmCall.sequences[q], 1).val
           /\ results[pmCall.sequences[q].header]
                  = run_instances_body(instances, pmCall.sequences[q], 1).val

\* The cache: disk_cache(cache_dir) has created an empty directory.
InitCache ==
    /\ files = EmptyDict
    /\ execs = EmptyDict
    /\ calls = EmptyDict
    /\ removed = FALSE
    /\ cCall = NoCacheCall
    /\ func = "expensive_kmer"
    /\ PMIdle /\ SeqIdle /\ AnIdle

NextCache ==
    \/ wrapper
    \/ os_remove

SpecCache == InitCache /\ [][NextCache]_vars

-----------------------------------------------------------------------------
(* Claims about the cache *)

EntryOf(content) == key_path_of(sha256_hexdigest(content))

\* C1: a call through the wrapper on a record returns the stored value
\* without invoking the wrapped function when an entry exists for the key of
\* the record's sequence; otherwise it invokes the function once, persists
\* the result under that key and returns that result.
C1_HitReturnsStoredMissComputes ==
    [][ (cCall'.n # cCall.n /\ hasattr(cCall'.arg, "sequence_string")) =>
        LET arg == cCall'.arg
            content == arg.sequence_string
        IN  /\ cCall'.raised = "none"
            /\ IF EntryOf(content) \in DOMAIN files
               THEN /\ cCall'.val = pickle_load(files[EntryOf(content)])
                    /\ execs' = execs
                    /\ files' = files
               ELSE /\ cCall'.val = expensive_kmer(arg)
                    /\ Count(execs', content) = Count(execs, content) + 1
                    /\ \A c \in DOMAIN execs' \ {content} :
                           Count(execs', c) = Count(execs, c)
                    /\ DOMAIN files' = DOMAIN files \cup {EntryOf(content)}
                    /\ pickle_load(files'[EntryOf(content)]) = cCall'.val
                    /\ \A p \in DOMAIN files : files'[p] = files[p]
      ]_vars

\* C1 witness: a call was a hit: it returned the value stored by an earlier
\* call and the function has run once for that content.
C1_Witness ==
    /\ cCall.hit
    /\ cCall.raised = "none"
    /\ Len(cCall.arg.sequence_string) > 0
    /\ Count(execs, cCall.arg.sequence_string) = 1
    /\ cCall.val = pickle_load(files[EntryOf(cCall.arg.sequence_string)])

\* C6: as long as no entry has been removed, all calls with the same
\* sequence content return equal results and the wrapped function has run
\* exactly once for that content (from the first call on).
C6_SameContentSameResultOneExecution ==
    ~removed =>
        \A content \in DOMAIN calls :
            /\ Count(execs, content) = 1
            /\ \A i \in 1..Len(calls[content]) :
                   calls[content][i].val = calls[content][1].val

\* C6 witness: three calls with one content, one execution.
C6_Witness ==
    /\ ~removed
    /\ \E content \in DOMAIN calls :
           /\ Len(content) > 0
           /\ Len(calls[content]) >= 3
           /\ Count(execs, content) = 1

\* C7: the key depends on the sequence only: as long as no entry has been
\* removed there is one entry per distinct sequence content seen, under the
\* key of that content, whatever the headers of the records, and the
\* function has run once per content.
C7_OneEntryPerContent ==
    ~removed =>
        /\ Cardinality(DOMAIN files) = Cardinality(DOMAIN calls)
        /\ \A content \in DOMAIN calls :
               /\ EntryOf(content) \in DOMAIN files
               /\ Count(execs, content) = 1

\* C7 witness: two records with one sequence and different headers have
\* been cached: one entry, one execution.
C7_Witness ==
    /\ ~removed
    /\ Cardinality(DOMAIN files) = 1
    /\ \E content \in DOMAIN calls :
           /\ \E i, j \in 1..Len(calls[content]) :
                  calls[content][i].header # calls[content][j].header
           /\ Count(execs, content) = 1

\* Record creation: an input is given, nothing has been created yet.
InitSeq ==
    /\ sCall \in {Pending(t) : t \in DirectArgs \cup FastaTexts \cup FastqTexts}
    /\ sOut = Yielded(<<>>)
    /\ PMIdle /\ CacheIdle /\ AnIdle

NextSeq ==
    \/ NewSequence
    \/ FromFasta
    \/ FromFastq
    \/ ParseFastaFile
    \/ ParseFastqFile

SpecSeq == InitSeq /\ [][NextSeq]_vars

-----------------------------------------------------------------------------
(* Claims about record creation *)

\* C9: every Sequence that exists has a non-empty sequence: each way of
\* creating one either fails or yields records with len(sequence) > 0.
C9_RecordsHaveNonEmptySequence ==
    sOut.raised = "none" =>
        \A i \in 1..Len(sOut.records) : Len(sOut.records[i].sequence_string) > 0

\* One analyzer, constructed, and one record.
InitAnalyzer ==
    /\ \E c \in AnCases : aInst = c.inst /\ aSeq = c.seq
    /\ aOut = NotRun
    /\ kOut = NotEnumerated
    /\ PMIdle /\ CacheIdle /\ SeqIdle

NextAnalyzer == RunAnalyzer

SpecAnalyzer == InitAnalyzer /\ [][NextAnalyzer]_vars

-----------------------------------------------------------------------------
(* Claims about the analyzers *)

MotifOf(instance) == KwGet(instance.kwargs, "motif")

\* the motif occurs nowhere in s
NoOccurrence(motif, s) == \A p \in 0..Len(s) : ~match_at(motif, s, p)

\* C10: motif search returns the empty list when the motif does not occur
\* in the record's sequence, never a value of another type.
C10_NoMatchGivesEmptyList ==
    ( /\ aOut.done
      /\ aInst.cls = MotifSearch
      /\ NoOccurrence(MotifOf(aInst), aSeq.sequence_string) )
    => /\ aOut.out.raised = "none"
       /\ aOut.out.val = PyList(<<>>)


\* the 1-based offsets at which the motif occurs in s
Occurrences(motif, s) ==
    {p \in 1..(Len(s) + 1) : /\ p + Len(motif) - 1 <= Len(s)
                             /\ SubSeq(s, p, p + Len(motif) - 1) = motif}

\* offs is the outcome of a left-to-right scan for the motif in which a match
\* consumes its span: increasing occurrences that do not overlap, and every
\* occurrence left out lies inside the span of a listed one that starts earlier
NonOverlappingScan(offs, motif, s) ==
    /\ \A i \in 1..Len(offs) : offs[i] \in Occurrences(motif, s)
    /\ \A i \in 1..(Len(offs) - 1) :
            /\ offs[i] < offs[i + 1]
            /\ offs[i + 1] - offs[i] >= Len(motif)
    /\ \A p \in Occurrences(motif, s) :
            \/ \E i \in 1..Len(offs) : offs[i] = p
            \/ \E i \in 1..Len(offs) : offs[i] < p /\ p < offs[i] + Len(motif)

ATG == <<"A", "T", "G">>
ATGTTGGGCATG == <<"A", "T", "G", "T", "T", "G", "G", "G", "C", "A", "T", "G">>

\* C11: when the motif occurs in the sequence, motif search returns the
\* strictly increasing list of the 1-based starts found by a left-to-right
\* non-overlapping scan, consecutive starts at least len(motif) apart; motif
\* 'ATG' on 'ATGTTGGGCATG' gives [1, 10].
C11_MotifOffsetsNonOverlapping ==
    ( /\ aOut.done
      /\ aInst.cls = MotifSearch
      /\ ~NoOccurrence(MotifOf(aInst), aSeq.sequence_string) )
    => /\ aOut.out.raised = "none"
       /\ aOut.out.val.type = "list"
       /\ Len(aOut.out.val.ints) >= 1
       /\ NonOverlappingScan(aOut.out.val.ints, MotifOf(aInst),
                             aSeq.sequence_string)
       /\ ( MotifOf(aInst) = ATG /\ aSeq.sequence_string = ATGTTGGGCATG )
            => aOut.out.val = PyList(<<1, 10>>)

\* the documented example has been run
C11_Witness ==
    /\ aOut.done
    /\ aInst.cls = MotifSearch
    /\ MotifOf(aInst) = ATG
    /\ aSeq.sequence_string = ATGTTGGGCATG
    /\ aOut.out.val = PyList(<<1, 10>>)

\* the number of characters of s that are G or C in either case
GCCount(s) == Cardinality({i \in 1..Len(s) : s[i] \in {"G", "C", "g", "c"}})

\* C13: for a non-empty sequence GC-content run returns (number of
\* characters equal to G or C, ignoring case) / length: the numerator lies
\* between 0 and the length and the result in [0, 1]; 'GCGT' and 'gcgt' give
\* 3/4, 'AATT' gives 0.
C13_GCContentIsFraction ==
    ( /\ aOut.done
      /\ aInst.cls = GCContent
      /\ Len(aSeq.sequence_string) >= 1 )
    => LET s == aSeq.sequence_string
           v == aOut.out.val
       IN  /\ aOut.out.raised = "none"
           /\ v.type = "float"
           /\ GCCount(s) >= 0 /\ GCCount(s) <= Len(s)
           /\ v.ints[2] > 0
           /\ v.ints[1] * Len(s) = GCCount(s) * v.ints[2]
           /\ 0 <= v.ints[1] /\ v.ints[1] <= v.ints[2]
           /\ s \in {<<"G", "C", "G", "T">>, <<"g", "c", "g", "t">>}
                => v = PyFloat(3, 4)
           /\ s = <<"A", "A", "T", "T">> => v.ints[1] = 0

\* the lower-case example has been run and gave 3/4
C13_Witness ==
    /\ aOut.done
    /\ aInst.cls = GCContent
    /\ aSeq.sequence_string = <<"g", "c", "g", "t">>
    /\ aOut.out.val = PyFloat(3, 4)

-----------------------------------------------------------------------------
(* Claims about the registry and the setup of a pipeline *)

\* C14: the registry holds the name of every concrete variant defined so
\* far (the two of the module from the start, a further one from its class
\* statement on, none ever leaving), holds no entry for the abstract base
\* 'Analyzer', and is changed by nothing other than a variant definition.
C14_RegistryTracksDefinitions ==
    /\ []( /\ "Analyzer" \notin registry
           /\ {GCContent, MotifSearch} \subseteq registry )
    /\ [][ /\ pmCall'.op = "class"
                => /\ pmCall'.cls \in registry'
                   /\ registry \subseteq registry'
           /\ registry' # registry => pmCall'.op = "class" ]_vars

\* a further variant has just been defined and is registered
C14_Witness ==
    /\ pmCall.op = "class"
    /\ pmCall.cls = UserVariant
    /\ UserVariant \in registry
    /\ "Analyzer" \notin registry

\* C15: configure replaces the instance list atomically: whenever control
\* returns from configure or add_analyzer, normally or through an exception,
\* the instance list is the complete list from before the call or the
\* complete list for the new order, never an empty or partially built one.
C15_ConfigureReplacesAtomically ==
    [][ pmCall'.op \in {"discover", "add_analyzer"}
            => \/ instances' = instances
               \/ /\ pmRaised' = "none"
                  /\ instances' = ExpectedInstances(order', name_map', configs')
      ]_vars

\* the number of occurrences of x in the list l
Occ(l, x) == Cardinality({i \in 1..Len(l) : l[i] = x})

\* C16: add_analyzer never makes a name occur twice in order: for a name
\* already in order it replaces the position instead of adding a second
\* occurrence, and the rebuilt instance list holds no second instance of
\* that variant.
C16_AddAnalyzerKeepsNamesUnique ==
    [][ ( pmCall'.op = "add_analyzer" /\ Occ(order, pmCall'.cls) <= 1 )
            => /\ Occ(order', pmCall'.cls) <= 1
               /\ Occ([i \in 1..Len(instances') |-> instances'[i].cls],
                      pmCall'.cls) <= 1
      ]_vars

\* C18: execution is sequential in a fixed order: within one run_one the
\* runs happen in instance-list order, one after the other; within
\* run_many all runs for record i come before any run for record i+1, the
\* records in input order.
C18_RunsInListAndInputOrder ==
    /\ pmCall.op = "run_instances"
         => trace = [k \in 1..Len(instances) |-> <<1, k>>]
    /\ pmCall.op = "run_all"
         => LET m == Len(instances)
                n == Len(pmCall.sequences)
            IN  /\ Len(trace) = n * m
                /\ \A k \in 1..Len(trace) :
                       trace[k] = <<((k - 1) \div m) + 1, ((k - 1) % m) + 1>>

\* two analyzers have been run on a batch of two records
C18_Witness ==
    /\ pmCall.op = "run_all"
    /\ Len(pmCall.sequences) = 2
    /\ Len(instances) = 2
    /\ trace = << <<1, 1>>, <<1, 2>>, <<2, 1>>, <<2, 2>> >>

LastInstanceOf(name) ==
    CHOOSE i \in 1..Len(instances) :
        /\ instances[i].cls = name
        /\ \A j \in (i + 1)..Len(instances) : instances[j].cls # name

Without(l, q) == [i \in 1..(Len(l) - 1) |-> IF i < q THEN l[i] ELSE l[i + 1]]

\* C23: add_analyzer commits to configs and order before it reconfigures
\* and takes nothing back: whether it returns or the reconfiguration
\* raises, configs[name] is the given config and order is the old order
\* with the name inserted at the requested position; configs is the
\* mapping the caller gave to the constructor, which shows the entry too.
C23_AddAnalyzerCommitsBeforeRebuild ==
    [][ pmCall'.op = "add_analyzer"
            => LET name == pmCall'.cls
                   pos == pmCall'.position
               IN  /\ name \in DOMAIN configs'
                   /\ configs'[name] = pmCall'.kwargs
                   /\ \A n \in DOMAIN configs \ {name} :
                          n \in DOMAIN configs' /\ configs'[n] = configs[n]
                   /\ caller_configs' = configs'
                   /\ Len(order') = Len(order) + 1
                   /\ \E q \in 1..Len(order') :
                          /\ order'[q] = name
                          /\ Without(order', q) = order
                          /\ pos \in 0..Len(order) => q = pos + 1
      ]_vars

\* add_analyzer has raised, and the entry and the name are there, in the
\* caller's mapping as well
C23_Witness ==
    /\ pmCall.op = "add_analyzer"
    /\ pmRaised # "none"
    /\ pmCall.cls \in DOMAIN caller_configs
    /\ caller_configs[pmCall.cls] = pmCall.kwargs
    /\ configs = caller_configs
    /\ Len(order) = 2
    /\ pmCall.position = 0
    /\ order[1] = pmCall.cls

-----------------------------------------------------------------------------
(* The k-mer enumerator on one record *)

InitKmer ==
    /\ aInst = [cls |-> GCContent, kwargs |-> NoKwargs]
    /\ aSeq \in KmerRecords
    /\ aOut = NotRun
    /\ kOut = NotEnumerated
    /\ PMIdle /\ CacheIdle /\ SeqIdle

NextKmer == ExpensiveKmer

SpecKmer == InitKmer /\ [][NextKmer]_vars

\* C12: for a sequence of length N >= 1 the k-mer enumerator returns a
\* mapping with key set {1..N} whose value at k is the list of the N-k+1
\* substrings sequence[j..j+k), j = 0..N-k in increasing j; the header and
\* the quality have no part in it.
C12_KmersAreAllSubstrings ==
    ( kOut.done /\ Len(aSeq.sequence_string) >= 1 )
    => LET s == aSeq.sequence_string
           N == Len(s)
       IN  /\ DOMAIN kOut.val = 1..N
           /\ \A k \in 1..N :
                  /\ Len(kOut.val[k]) = N - k + 1
                  /\ \A j \in 0..(N - k) :
                         kOut.val[k][j + 1] = [n \in 1..k |-> s[j + n]]

\* a sequence of three characters has been enumerated: three 1-mers, two
\* 2-mers and the sequence itself
C12_Witness ==
    /\ kOut.done
    /\ Len(aSeq.sequence_string) = 3
    /\ DOMAIN kOut.val = 1..3
    /\ Len(kOut.val[2]) = 2
    /\ kOut.val[3] = <<aSeq.sequence_string>>

-----------------------------------------------------------------------------
(* The cache over a directory that is not empty at the start *)

InitLeftover ==
    /\ files \in LeftoverDirs
    /\ execs = EmptyDict
    /\ calls = EmptyDict
    /\ removed = FALSE
    /\ cCall = NoCacheCall
    /\ func = "expensive_kmer"
    /\ PMIdle /\ SeqIdle /\ AnIdle

NextLeftover ==
    \/ wrapper
    \/ os_remove

SpecLeftover == InitLeftover /\ [][NextLeftover]_vars

\* C17: no call through the cache deletes or overwrites an existing entry:
\* a call whose key has an entry leaves the directory as it is and returns
\* the stored value, whatever the function would compute; any call leaves
\* the entries of all other keys unchanged; an entry disappears only in a
\* step that is not a call (external removal).
C17_CallsKeepExistingEntries ==
    [][ /\ cCall'.n = cCall.n + 1
            => /\ \A p \in DOMAIN files :
                      p \in DOMAIN files' /\ files'[p] = files[p]
               /\ hasattr(cCall'.arg, "sequence_string")
                     => LET p == EntryOf(cCall'.arg.sequence_string)
                        IN  /\ DOMAIN files' \subseteq DOMAIN files \cup {p}
                            /\ p \in DOMAIN files
                                  => /\ files' = files
                                     /\ cCall'.raised = "none"
                                     /\ cCall'.val = pickle_load(files[p])
               /\ ~hasattr(cCall'.arg, "sequence_string") => files' = files
        /\ (\E p \in DOMAIN files : p \notin DOMAIN files')
            => cCall'.n = cCall.n
      ]_vars

\* a call has returned a stored value that differs from what the function
\* computes for its argument, and the entry is still as it was
C17_Witness ==
    /\ cCall.n > 0
    /\ cCall.hit
    /\ cCall.val # expensive_kmer(cCall.arg)
    /\ EntryOf(cCall.arg.sequence_string) \in DOMAIN files
    /\ files[EntryOf(cCall.arg.sequence_string)] = pickle_dump(cCall.val)
    /\ cCall.val = StaleKmers

-----------------------------------------------------------------------------
(* The cache around a function that raises on some records *)

InitRaising ==
    /\ files = EmptyDict
    /\ execs = EmptyDict
    /\ calls = EmptyDict
    /\ removed = FALSE
    /\ cCall = NoCacheCall
    /\ func = "GCContentAnalyzer.run"
    /\ PMIdle /\ SeqIdle /\ AnIdle

NextRaising ==
    \/ wrapper
    \/ os_remove

SpecRaising == InitRaising /\ [][NextRaising]_vars

\* the call that has just been made was a miss on which the function raised
FuncRaisedOnMiss ==
    /\ cCall.n > 0
    /\ hasattr(cCall.arg, "sequence_string")
    /\ ~cCall.hit
    /\ cCall.raised = "ZeroDivisionError"

\* C21: when the wrapped function raises on a miss, the exception reaches
\* the caller and no entry is created: the directory is as before the call,
\* and the next call with the same content is again a miss that invokes
\* the function.
C21_RaiseOnMissCreatesNoEntry ==
    [][ /\ ( cCall'.n = cCall.n + 1 /\ FuncRaisedOnMiss' )
            => /\ files' = files
               /\ EntryOf(cCall'.arg.sequence_string) \notin DOMAIN files'
               /\ Count(execs', cCall'.arg.sequence_string)
                     = Count(execs, cCall'.arg.sequence_string) + 1
        /\ ( /\ FuncRaisedOnMiss
             /\ cCall'.n = cCall.n + 1
             /\ hasattr(cCall'.arg, "sequence_string")
             /\ cCall'.arg.sequence_string = cCall.arg.sequence_string )
            => /\ ~cCall'.hit
               /\ Count(execs', cCall.arg.sequence_string)
                     = Count(execs, cCall.arg.sequence_string) + 1
      ]_vars

\* the function has raised twice for one content, each time on a miss, next
\* to an entry of another content that is still there
C21_Witness ==
    /\ FuncRaisedOnMiss
    /\ Count(execs, cCall.arg.sequence_string) >= 2
    /\ EntryOf(cCall.arg.sequence_string) \notin DOMAIN files
    /\ DOMAIN files # {}

\* C22: a call with an argument that has no sequence_string derives no key:
\* it fails with an error, the function is not invoked, no entry is read
\* or written and the directory is unchanged.
C22_NoSequenceStringFailsEarly ==
    [][ ( cCall'.n = cCall.n + 1 /\ ~hasattr(cCall'.arg, "sequence_string") )
            => /\ cCall'.raised # "none"
               /\ ~cCall'.hit
               /\ files' = files
               /\ execs' = execs
               /\ calls' = calls
      ]_vars

\* a call with such an argument has failed next to an existing entry
C22_Witness ==
    /\ cCall.n > 0
    /\ ~hasattr(cCall.arg, "sequence_string")
    /\ cCall.raised = "UnboundLocalError"
    /\ DOMAIN files # {}

=============================================================================
